---- MODULE Spec2Model ----
(***************************************************************************)
(* Model of src/app.py: the AI code review assistant.                      *)
(*                                                                         *)
(* Text is modelled as a sequence of tokens.  A token is an indivisible    *)
(* run of characters: a line break, a blank, a section marker, a fence,    *)
(* a fence tag or a piece of source code.  The empty string is <<>>.       *)
(* Python's None is modelled by the empty sequence of an option value:     *)
(* None == <<>> and a present text t is <<t>>.                             *)
(***************************************************************************)
EXTENDS Naturals, Sequences, FiniteSets

VARIABLES
    llm,            \* the mocked model: what llm.invoke(prompt) does
    re_possessive,  \* the interpreter's re module reads "++" as a possessive quantifier
    op,             \* the latest operation run
    language,       \* the language of the latest operation
    code_input,     \* the source code of the latest operation
    result,         \* the dict the latest review_code returned
    calls,          \* the calls the latest operation made, in order
    extracted,      \* the (corrected, optimized) tuple of the latest extraction
    displayed,      \* what the latest script run rendered below the button
    previous        \* what review_code returned the time before, when the latest
                    \* two operations both ran it on the same input; <<>> otherwise

vars == <<llm, re_possessive, op, language, code_input, result, calls,
          extracted, displayed, previous>>

----------------------------------------------------------------------------
(* Bounds of the model. *)

\* The largest number of fenced code blocks in a mocked response.
MaxBlocks == 2

----------------------------------------------------------------------------
(* Tokens and text. *)

NL == "\n"
Fence == "<three backticks>"
Whitespace == {" ", NL, "\t"}

None == <<>>
Some(t) == <<t>>

RECURSIVE lstrip(_)
lstrip(text) ==
    IF text # <<>> /\ Head(text) \in Whitespace THEN lstrip(Tail(text)) ELSE text

RECURSIVE rstrip(_)
rstrip(text) ==
    IF text # <<>> /\ text[Len(text)] \in Whitespace
    THEN rstrip(SubSeq(text, 1, Len(text) - 1))
    ELSE text

\* A variant of strip that removes nothing (a test for emptiness without
\* the strip); C10_OneInvocationPerClick tells the code from it.
strip_none(text) == text

\* str.strip(): leading and trailing whitespace removed.
strip(text) == rstrip(lstrip(text))

\* A variant of lower that keeps the case (a case-sensitive comparison);
\* C6_SyntaxErrorAdvisory tells the code from it.
lower_identity(s) == s

\* str.lower() on the language names the model uses.
lower(s) ==
    CASE s = "Python" -> "python"
      [] s = "python" -> "python"
      [] s = "JavaScript" -> "javascript"
      [] s = "Java" -> "java"
      [] s = "C++" -> "c++"
      [] s = "Go" -> "go"

Min(S) == CHOOSE m \in S : \A n \in S : m <= n

----------------------------------------------------------------------------
(* validate_response_format *)

Issues == "**Issues:**"
Corrected == "**Corrected Code (Preserve Indentation):**"
Optimized == "**Optimized Code:**"
Explanation == "**Explanation:**"

\* The four patterns, each "^" followed by the literal marker.
required_sections == <<Issues, Corrected, Optimized, Explanation>>

\* re.search("^" + marker, response, re.MULTILINE): "^" matches at the start
\* of the text and right after every line break.
re_search_multiline(marker, response) ==
    \E i \in 1..Len(response) :
        /\ response[i] = marker
        /\ (i = 1 \/ response[i - 1] = NL)

\* A variant of validate_response_format with any() for all();
\* C4_AcceptedIffAllMarkers tells the code from it.
validate_any(response) ==
    \E k \in 1..Len(required_sections) :
        re_search_multiline(required_sections[k], response)

validate_response_format(response) ==
    \A k \in 1..Len(required_sections) :
        re_search_multiline(required_sections[k], response)

----------------------------------------------------------------------------
(* validate_python_syntax *)

\* The pieces of source code of the model that Python's grammar rejects.
Malformed == {"def f(: return 1"}

\* ast.parse(code): returns, or raises SyntaxError with a message.
ast_parse(code) ==
    IF \E i \in 1..Len(code) : code[i] \in Malformed
    THEN [raised |-> TRUE, msg |-> <<"invalid syntax (<unknown>, line 1)">>]
    ELSE [raised |-> FALSE, msg |-> <<>>]

SyntaxErrorBanner == "(red circle) Syntax Error in Generated Code:"

validate_python_syntax(code) ==
    IF ast_parse(code).raised
    THEN <<SyntaxErrorBanner, NL>> \o ast_parse(code).msg
    ELSE <<>>

----------------------------------------------------------------------------
(* extract_code_blocks *)

\* The language is pasted into the pattern unescaped.  Of the languages of
\* the model only "C++" holds regular-expression operators: "C++" is "C"
\* under the possessive quantifier "++" where re supports it, and is
\* refused by re.compile ("multiple repeat") where it does not.
RegexOperators == {"C++"}

re_compile_raises(lang) == lang \in RegexOperators /\ ~re_possessive

\* Whether the pattern piece made from lang matches the whole fence tag.
TagMatches(lang, tag) ==
    IF lang \in RegexOperators THEN tag \in {"C", "CC"} ELSE tag = lang

\* The fence, the language and the line break of the pattern match at i.
Opens(response, lang, i) ==
    /\ i + 2 <= Len(response)
    /\ response[i] = Fence
    /\ TagMatches(lang, response[i + 1])
    /\ response[i + 2] = NL

\* Where the lazy group (.*?) of a match opened at i may end.
Closes(response, i) == {j \in (i + 3)..Len(response) : response[j] = Fence}

\* pattern.search(response): group(1) of the leftmost match, or None.
pattern_search(lang, response) ==
    LET starts == {i \in 1..Len(response) :
                      Opens(response, lang, i) /\ Closes(response, i) # {}}
    IN  IF starts = {} THEN None
        ELSE LET i == Min(starts)
                 j == Min(Closes(response, i))
             IN  Some(SubSeq(response, i + 3, j - 1))

extract_code_blocks(response, lang) ==
    IF re_compile_raises(lang)
    THEN [raised |-> TRUE, corrected |-> None, optimized |-> None]
    ELSE LET corrected_match == pattern_search(lang, response)
             optimized_match == pattern_search(lang, response)
         IN  [raised |-> FALSE,
              corrected |-> IF corrected_match # None
                            THEN Some(strip(corrected_match[1])) ELSE None,
              optimized |-> IF optimized_match # None
                            THEN Some(strip(optimized_match[1])) ELSE None]

----------------------------------------------------------------------------
(* review_code *)

InvalidFormat == "Invalid response format from AI model"

\* What extract_code_blocks would have returned had it found nothing; the
\* value of the tuple while no extraction has run.
NoExtraction == [raised |-> FALSE, corrected |-> None, optimized |-> None]

\* A variant of api_error_result without the "API Error: " prefix;
\* C1_ExactlyOneNonEmpty tells the code from it.
api_error_bare(msg) == [error |-> msg]

\* The dict returned when llm.invoke raises e; msg is str(e).
api_error_result(msg) == [error |-> <<"API Error:", " ">> \o msg]

\* A variant of annotate that returns the message in place of the response;
\* C3_ValidResponseReturned tells the code from it.
annotate_overwrite(response, validation_msg) ==
    IF validation_msg # <<>> THEN validation_msg ELSE response

\* A variant of annotate that appends to the review of the call before (a
\* response buffer shared between calls); C8_RepeatedInvocation tells the
\* code from it.
annotate_shared(response, validation_msg) ==
    IF validation_msg # <<>>
    THEN (IF result # <<>> /\ "review" \in DOMAIN result /\ result.review # <<>>
          THEN result.review ELSE response) \o <<NL, NL>> \o validation_msg
    ELSE response

\* response += "\n\n" + validation_msg, when there is a message.
annotate(response, validation_msg) ==
    IF validation_msg # <<>>
    THEN response \o <<NL, NL>> \o validation_msg
    ELSE response

\* review_code(state): ret is the dict it returns (<<>> when it raises
\* instead), calls the calls it made, extraction the tuple it got from
\* extract_code_blocks.
review_code(state) ==
    LET lang == state.language
        original_code == strip(state.code)
    IN  IF llm.kind = "raise"
        THEN [ret |-> api_error_result(llm.msg),
              calls |-> <<"llm.invoke">>,
              extraction |-> NoExtraction]
        ELSE
        LET response == llm.content IN
        IF ~validate_response_format(response)
        THEN [ret |-> [error |-> <<InvalidFormat>>],
              calls |-> <<"llm.invoke", "validate_response_format">>,
              extraction |-> NoExtraction]
        ELSE IF lower(lang) # "python"
        THEN [ret |-> [language |-> lang, code |-> original_code,
                       review |-> response, error |-> <<>>],
              calls |-> <<"llm.invoke", "validate_response_format">>,
              extraction |-> NoExtraction]
        ELSE
        LET extraction == extract_code_blocks(response, lang) IN
        IF extraction.raised
        THEN [ret |-> <<>>,
              calls |-> <<"llm.invoke", "validate_response_format",
                          "extract_code_blocks">>,
              extraction |-> extraction]
        ELSE IF extraction.corrected = None \/ extraction.corrected[1] = <<>>
        THEN [ret |-> [language |-> lang, code |-> original_code,
                       review |-> response, error |-> <<>>],
              calls |-> <<"llm.invoke", "validate_response_format",
                          "extract_code_blocks">>,
              extraction |-> extraction]
        ELSE
        LET validation_msg == validate_python_syntax(extraction.corrected[1]) IN
        [ret |-> [language |-> lang, code |-> original_code,
                  review |-> annotate(response, validation_msg),
                  error |-> <<>>],
         calls |-> <<"llm.invoke", "validate_response_format",
                     "extract_code_blocks", "validate_python_syntax">>,
         extraction |-> extraction]

----------------------------------------------------------------------------
(* The inputs of the model. *)

\* The options of the language selectbox.
UILanguages == {"Python", "JavaScript", "Java", "C++", "Go"}

\* The languages review_code and extract_code_blocks are called with.
Languages == UILanguages \cup {"python"}

\* The contents of the code editor: empty, blank, and code between blanks.
Codes == {<<>>, <<" ", NL>>, <<" ", "x = 1", NL>>}

\* The fenced blocks of a mocked response: Python code that parses and
\* Python code that does not, under either spelling of the tag, and a block
\* of C++.
BlockCodes == {"def f(): return 1", "def f(: return 1"}
BlockKinds ==
    [tag : {"Python", "python"}, code : BlockCodes]
    \cup {[tag |-> "C++", code |-> "int f() { return 1; }"]}
BlockSeqs == UNION {[1..n -> BlockKinds] : n \in 0..MaxBlocks}

\* A fenced block: the opening fence with its tag, the code, the closing fence.
Block(b) == <<Fence, b.tag, NL, b.code, NL, Fence, NL>>

\* A header is on a line of its own ("line"), behind other text on its
\* line ("inline"), or left out ("absent").
HeaderLine(h) ==
    CASE h.shape = "line" -> <<h.marker, NL>>
      [] h.shape = "inline" -> <<"Review: ", h.marker, NL>>
      [] h.shape = "absent" -> <<>>

Markers == {required_sections[k] : k \in 1..Len(required_sections)}

\* The four headers in every order, and in the order of the prompt with one
\* of them inline or absent.
HeaderSeqs ==
    {[k \in 1..4 |-> [marker |-> p[k], shape |-> "line"]] :
        p \in {q \in [1..4 -> Markers] : \A a, b \in 1..4 : a # b => q[a] # q[b]}}
    \cup
    {[k \in 1..4 |-> [marker |-> required_sections[k],
                      shape |-> IF k = d THEN sh ELSE "line"]] :
        d \in 1..4, sh \in {"inline", "absent"}}

\* The text of a response: the header lines, the k-th block after the
\* (k+1)-th of them, blocks left over at the end.
RECURSIVE Weave(_, _, _)
Weave(hs, bs, n) ==
    IF hs = <<>>
    THEN IF bs = <<>> THEN <<>> ELSE Block(Head(bs)) \o Weave(hs, Tail(bs), n)
    ELSE IF n >= 2 /\ bs # <<>>
         THEN HeaderLine(Head(hs)) \o Block(Head(bs)) \o Weave(Tail(hs), Tail(bs), n + 1)
         ELSE HeaderLine(Head(hs)) \o Weave(Tail(hs), bs, n + 1)

\* The headers in the order of the prompt, each on a line of its own.
PromptOrder == [k \in 1..4 |-> [marker |-> required_sections[k], shape |-> "line"]]

\* The mocked responses: every arrangement of the headers around one Python
\* block that does not parse, and every sequence of blocks under the headers
\* in the order of the prompt.
Responses ==
    {Weave(hs, <<[tag |-> "Python", code |-> "def f(: return 1"]>>, 1) :
        hs \in HeaderSeqs}
    \cup
    {Weave(PromptOrder, bs, 1) : bs \in BlockSeqs}

\* str(e) of the exception llm.invoke raises; it may be empty.
ExceptionMessages == {<<>>, <<"Connection error.">>}

LLMOutcomes ==
    {[kind |-> "ok", content |-> r, msg |-> <<>>] : r \in Responses}
    \cup
    {[kind |-> "raise", content |-> <<>>, msg |-> m] : m \in ExceptionMessages}

----------------------------------------------------------------------------
(* The state machine. *)

Init ==
    /\ llm \in LLMOutcomes
    /\ re_possessive \in BOOLEAN
    /\ op = "start"
    /\ language = "Python"
    /\ code_input = <<>>
    /\ result = <<>>
    /\ calls = <<>>
    /\ extracted = NoExtraction
    /\ displayed = {}
    /\ previous = <<>>

\* review_code has run in the latest operation.
Ran == op \in {"click", "review_code"} /\ calls # <<>>

\* The latest operation ran review_code on this very input.
RanOn(lang, code) == Ran /\ language = lang /\ code_input = code

\* The script run of a click on the Analyze button, with the selectbox at
\* lang and the editor holding code.  An exception that leaves the handler
\* is rendered by the framework in place of what the handler had left to
\* render.
AnalyzeClick(lang, code) ==
    LET state == [language |-> lang, code |-> code,
                  review |-> <<>>, error |-> <<>>]
        r == review_code(state)
    IN  /\ op' = "click"
        /\ language' = lang
        /\ code_input' = code
        /\ IF strip(code) = <<>>
           THEN /\ displayed' = {[widget |-> "warning",
                                  text |-> <<"Please enter code to analyze">>]}
                /\ result' = <<>>
                /\ calls' = <<>>
                /\ extracted' = NoExtraction
                /\ previous' = <<>>
           ELSE /\ result' = r.ret
                /\ previous' = IF RanOn(lang, code) THEN result ELSE <<>>
                /\ calls' = r.calls
                /\ extracted' = r.extraction
                /\ displayed' =
                     IF r.ret = <<>>
                     THEN {[widget |-> "exception", text |-> <<"re.error">>]}
                     ELSE IF r.ret.error # <<>>
                     THEN {[widget |-> "error", text |-> <<"Error: ">> \o r.ret.error]}
                     ELSE IF "review" \notin DOMAIN r.ret
                     THEN {[widget |-> "subheader", text |-> <<"Analysis Results">>],
                           [widget |-> "exception", text |-> <<"KeyError">>]}
                     ELSE {[widget |-> "subheader", text |-> <<"Analysis Results">>],
                           [widget |-> "markdown", text |-> r.ret.review]}
        /\ UNCHANGED <<llm, re_possessive>>

\* review_code called with a state of its own (the graph node, a test).
ReviewCall(lang, code) ==
    LET r == review_code([language |-> lang, code |-> code,
                          review |-> <<>>, error |-> <<>>])
    IN  /\ op' = "review_code"
        /\ language' = lang
        /\ code_input' = code
        /\ result' = r.ret
        /\ calls' = r.calls
        /\ extracted' = r.extraction
        /\ displayed' = {}
        /\ previous' = IF RanOn(lang, code) THEN result ELSE <<>>
        /\ UNCHANGED <<llm, re_possessive>>

\* extract_code_blocks applied to the model's response and a language.
ExtractCall(lang) ==
    /\ llm.kind = "ok"
    /\ op' = "extract_code_blocks"
    /\ language' = lang
    /\ code_input' = <<>>
    /\ result' = <<>>
    /\ calls' = <<"extract_code_blocks">>
    /\ extracted' = extract_code_blocks(llm.content, lang)
    /\ displayed' = {}
    /\ previous' = <<>>
    /\ UNCHANGED <<llm, re_possessive>>

Next ==
    \/ \E lang \in UILanguages, code \in Codes : AnalyzeClick(lang, code)
    \/ \E lang \in Languages, code \in Codes : ReviewCall(lang, code)
    \/ \E lang \in Languages : ExtractCall(lang)

Spec == Init /\ [][Next]_vars

----------------------------------------------------------------------------
(* Vocabulary of the properties. *)

\* The text the mocked model answers with.
Response == llm.content

\* review_code has run in the latest operation and the model has answered.
Answered == Ran /\ llm.kind = "ok"

NonEmptyField(d, k) == k \in DOMAIN d /\ d[k] # <<>>

Count(seq, x) == Cardinality({i \in 1..Len(seq) : seq[i] = x})

\* The lines of a text, without their line breaks.
RECURSIVE SplitLines(_)
SplitLines(text) ==
    IF text = <<>> THEN << <<>> >>
    ELSE LET rest == SplitLines(Tail(text))
         IN  IF Head(text) = NL THEN << <<>> >> \o rest
             ELSE << <<Head(text)>> \o Head(rest) >> \o Tail(rest)

\* The numbers of the lines of lines that start with marker m.
MarkerLines(lines, m) ==
    {k \in 1..Len(lines) : lines[k] # <<>> /\ Head(lines[k]) = m}

AllMarkersPresent(text) ==
    LET lines == SplitLines(text)
    IN  \A m \in {Issues, Corrected, Optimized, Explanation} :
            MarkerLines(lines, m) # {}

\* Lines start with the four markers in the order of the prompt.
InPromptOrder(text) ==
    LET lines == SplitLines(text)
    IN  \E a \in MarkerLines(lines, Issues), b \in MarkerLines(lines, Corrected),
           c \in MarkerLines(lines, Optimized), d \in MarkerLines(lines, Explanation) :
            a < b /\ b < c /\ c < d

\* t is one syntax-error note: the banner, a line break, the parser's message.
IsSyntaxNote(t) ==
    /\ Len(t) >= 3
    /\ t[1] = SyntaxErrorBanner
    /\ t[2] = NL
    /\ Count(t, SyntaxErrorBanner) = 1

\* review is the response, a blank line, and one syntax-error note.
Annotated(review, response) ==
    /\ Len(review) > Len(response) + 2
    /\ SubSeq(review, 1, Len(response)) = response
    /\ review[Len(response) + 1] = NL
    /\ review[Len(response) + 2] = NL
    /\ IsSyntaxNote(SubSeq(review, Len(response) + 3, Len(review)))

\* The positions of the fences of a text.
Fences(text) == {i \in 1..Len(text) : text[i] = Fence}

\* The opening fences of the blocks tagged exactly tag that are closed.
TaggedBlocks(text, tag) ==
    {i \in Fences(text) :
        /\ i + 2 <= Len(text)
        /\ text[i + 1] = tag
        /\ text[i + 2] = NL
        /\ \E j \in Fences(text) : j > i + 2}

\* The contents of the block opened at i, up to its closing fence.
BlockBody(text, i) ==
    SubSeq(text, i + 3, Min({j \in Fences(text) : j > i + 2}) - 1)

----------------------------------------------------------------------------
(* Properties. *)

\* C1: every result review_code returns has exactly one of its review text
\* and its error message non-empty (a result without a review entry has no
\* non-empty review).
C1_ExactlyOneNonEmpty ==
    result # <<>> =>
        (NonEmptyField(result, "review") # NonEmptyField(result, "error"))

\* C1 witness: llm.invoke raised an exception with an empty message, and
\* review_code returned.
C1_Witness == Ran /\ llm.kind = "raise" /\ llm.msg = <<>> /\ result # <<>>

\* C2: when the response lacks one of the four headers, review_code returns
\* error "Invalid response format from AI model" and review "", and runs
\* neither the extraction nor the syntax check.
C2_MissingHeaderRejected ==
    (Answered /\ ~AllMarkersPresent(Response)) =>
        /\ result # <<>>
        /\ result.error = <<InvalidFormat>>
        /\ "review" \in DOMAIN result
        /\ result.review = <<>>
        /\ Count(calls, "extract_code_blocks") = 0
        /\ Count(calls, "validate_python_syntax") = 0

\* C3: for a response with all four headers review_code returns error "",
\* the language unchanged, and as review the response, unchanged, or the
\* response followed by one syntax-error note.
C3_ValidResponseReturned ==
    (Answered /\ AllMarkersPresent(Response)) =>
        /\ result # <<>>
        /\ {"language", "review", "error"} \subseteq DOMAIN result
        /\ result.error = <<>>
        /\ result.language = language
        /\ (result.review = Response \/ Annotated(result.review, Response))

\* C3 witness: a response with the headers out of the prompt's order came
\* back with a note appended.
C3_Witness ==
    /\ Answered
    /\ AllMarkersPresent(Response)
    /\ ~InPromptOrder(Response)
    /\ result # <<>>
    /\ "review" \in DOMAIN result
    /\ Annotated(result.review, Response)

\* C4 as claimed: a response is accepted only if its four markers start
\* lines in the order Issues, Corrected Code, Optimized Code, Explanation.
C4_AcceptedOnlyInOrder ==
    (Answered /\ result # <<>> /\ result.error # <<InvalidFormat>>) =>
        InPromptOrder(Response)

\* C4 as amended: a response is accepted exactly when each of the four
\* markers starts some line, in whatever order.
C4_AcceptedIffAllMarkers ==
    Answered =>
        /\ result # <<>>
        /\ (result.error # <<InvalidFormat>>) <=> AllMarkersPresent(Response)

\* C4 witness: an accepted response whose markers are not in that order.
C4_Witness ==
    /\ Answered
    /\ result # <<>>
    /\ result.error = <<>>
    /\ ~InPromptOrder(Response)

\* C5: when llm.invoke raises, review_code returns an error that is
\* "API Error: " and the exception's message, and review ""; it runs
\* nothing after the call.
C5_ApiErrorResult ==
    (Ran /\ llm.kind = "raise") =>
        /\ result # <<>>
        /\ Len(result.error) >= 1
        /\ result.error[1] = "API Error:"
        /\ SubSeq(result.error, 3, Len(result.error)) = llm.msg
        /\ "review" \in DOMAIN result
        /\ result.review = <<>>
        /\ calls = <<"llm.invoke">>

\* C6: a syntax error is advisory.  With the language Python in any case
\* and extracted corrected code that does not parse, review_code returns
\* error "" and the response followed by the note; in every other case the
\* review is the response exactly.
C6_SyntaxErrorAdvisory ==
    (Answered /\ AllMarkersPresent(Response)) =>
        LET corrected == extract_code_blocks(Response, language).corrected
            failing == /\ language \in {"Python", "python"}
                       /\ corrected # None
                       /\ ast_parse(corrected[1]).raised
        IN  /\ result # <<>>
            /\ result.error = <<>>
            /\ IF failing
               THEN /\ Annotated(result.review, Response)
                    /\ result.review =
                         Response \o <<NL, NL>> \o validate_python_syntax(corrected[1])
               ELSE result.review = Response

\* C6 witness: review_code called with the language in lower case returned
\* an annotated review.
C6_Witness ==
    /\ Answered
    /\ language = "python"
    /\ result # <<>>
    /\ result.error = <<>>
    /\ Annotated(result.review, Response)

\* C7: with the language "Python" and a response with all four headers and
\* one fenced block tagged python or Python, the extracted corrected code is
\* the trimmed contents of the block, and the review carries a note exactly
\* when the contents do not parse.
C7_PythonBlockChecked ==
    (/\ Answered
     /\ language = "Python"
     /\ AllMarkersPresent(Response)
     /\ Cardinality(Fences(Response)) = 2
     /\ TaggedBlocks(Response, "python") \cup TaggedBlocks(Response, "Python") # {}) =>
        LET body == strip(BlockBody(Response, Min(Fences(Response))))
        IN  /\ result # <<>>
            /\ result.error = <<>>
            /\ extracted.corrected = Some(body)
            /\ Annotated(result.review, Response) <=> ast_parse(body).raised

C9_FirstTaggedBlock ==
    /\ op = "extract_code_blocks" =>
         /\ ~extracted.raised
         /\ extracted.corrected = extracted.optimized
         /\ extracted.corrected =
              IF TaggedBlocks(Response, language) = {} THEN None
              ELSE Some(strip(BlockBody(Response, Min(TaggedBlocks(Response, language)))))
    /\ (/\ Answered
        /\ AllMarkersPresent(Response)
        /\ Count(calls, "extract_code_blocks") = 1
        /\ extracted.corrected = None) =>
         /\ result # <<>>
         /\ result.error = <<>>
         /\ result.review = Response

\* C10: a click on Analyze calls the model at most once: not at all when
\* the code is empty or blank (a warning is shown), once otherwise; and one
\* of warning, error banner and review is displayed.
C10_OneInvocationPerClick ==
    op = "click" =>
        /\ Count(calls, "llm.invoke") <= 1
        /\ (\A i \in 1..Len(code_input) : code_input[i] \in Whitespace) =>
             /\ calls = <<>>
             /\ \E d \in displayed : d.widget = "warning"
        /\ (\E i \in 1..Len(code_input) : code_input[i] \notin Whitespace) =>
             Count(calls, "llm.invoke") = 1
        /\ Cardinality({d.widget : d \in displayed}
                         \cap {"warning", "error", "markdown"}) = 1

\* C10 witness: a click with blank code, which showed the warning.
C10_Witness ==
    /\ op = "click"
    /\ code_input # <<>>
    /\ calls = <<>>
    /\ \E d \in displayed : d.widget = "warning"

====
